---- MODULE Spec2Model ----
(***************************************************************************)
(* A model of hack/verify_boilerplate.py, the licence-header checker.      *)
(*                                                                         *)
(* Text is modelled as a flat sequence of atoms.  An atom is an            *)
(* indivisible piece of text ("w", "2014", "YEAR", "#!", ...); the atom    *)
(* "\n" is the newline character.  A string is the concatenation of its    *)
(* atoms, so `x in s` is "the atoms of x occur contiguously in s", and a   *)
(* regular expression that is an alternation of atoms matches a line iff   *)
(* the line holds one of them.  Paths are atom sequences too, with the     *)
(* atoms "/" and "." as separators.                                        *)
(***************************************************************************)
EXTENDS Integers, Sequences, FiniteSets, TLC

(***************************************************************************)
(* Bounds of the model.                                                    *)
(***************************************************************************)
\* the largest number of lines of a candidate text in SpecMatch
MaxLines == 3
\* the largest number of files on the disk in Spec
MaxFiles == 2

(***************************************************************************)
(* Generic string helpers (Python's str operations on atom sequences).     *)
(***************************************************************************)
NL == "\n"

Min(S) == CHOOSE x \in S : \A y \in S : x <= y

Max(S) == CHOOSE x \in S : \A y \in S : x >= y

\* Python's `frag in s`
Contains(s, frag) ==
    \E i \in 1..(Len(s) - Len(frag) + 1) : SubSeq(s, i, i + Len(frag) - 1) = frag

\* index of the first newline at or after position p, 0 when there is none
NextNL(d, p) ==
    LET S == {i \in p..Len(d) : d[i] = NL}
    IN IF S = {} THEN 0 ELSE Min(S)

\* the positions where ^ matches under re.MULTILINE and a character follows
LineStarts(d) == {i \in 1..Len(d) : i = 1 \/ d[i - 1] = NL}

\* str.splitlines()
RECURSIVE splitlines(_)
splitlines(d) ==
    IF d = <<>> THEN <<>>
    ELSE LET k == NextNL(d, 1)
         IN IF k = 0 THEN <<d>>
            ELSE <<SubSeq(d, 1, k - 1)>> \o splitlines(SubSeq(d, k + 1, Len(d)))

\* the inverse used to build inputs: every line followed by a newline
RECURSIVE JoinLines(_)
JoinLines(ls) ==
    IF ls = <<>> THEN <<>> ELSE Head(ls) \o <<NL>> \o JoinLines(Tail(ls))

(***************************************************************************)
(* get_dates / get_regexs                                                  *)
(***************************************************************************)
\* datetime.datetime.now().year, the clock value of the run
years == 2016

\* the first year of range(2014, years + 1)
FirstYear == 2014

\* range(2014, years): the current year left out
get_dates_exclusive == {ToString(y) : y \in FirstYear..(years - 1)}

\* get_dates(): the alternation (2014|...|years), as the set of its branches
get_dates == {ToString(y) : y \in FirstYear..years}

\* a "year" pattern that never matches
year_search_never(line) == FALSE

\* regexs["year"] = re.compile('YEAR'): year.search(line)
year_search(line) == Contains(line, <<"YEAR">>)

\* subn whose count is lost: the caller's loop never breaks
date_subn_uncounted(line) ==
    [line |-> [i \in 1..Len(line) |->
                  IF line[i] \in get_dates THEN "YEAR" ELSE line[i]],
     found |-> 0]

\* regexs["date"].subn('YEAR', line): every occurrence on the line is replaced
date_subn(line) ==
    [line |-> [i \in 1..Len(line) |->
                  IF line[i] \in get_dates THEN "YEAR" ELSE line[i]],
     found |-> Cardinality({i \in 1..Len(line) : line[i] \in get_dates})]

\* regexs["shebang"] = ^(#!.*\n)\n* with re.MULTILINE; subn("", data, 1)
shebang_subn(d) ==
    LET M == {p \in LineStarts(d) : d[p] = "#!" /\ NextNL(d, p) # 0}
    IN IF M = {} THEN d
       ELSE LET p == Min(M)
                q == NextNL(d, p)
                r == Max({j \in q..Len(d) : \A k \in q..j : d[k] = NL})
            IN SubSeq(d, 1, p - 1) \o SubSeq(d, r + 1, Len(d))

\* the line prefixes //go:build and // +build
GoTags == {"//go:build", "// +build"}

\* where a match of ^(//(go:build| \+build).*\n)+\n that starts at p ends, or 0
RECURSIVE GoEnd(_, _)
GoEnd(d, p) ==
    LET q == NextNL(d, p)
    IN IF q = 0 \/ q + 1 > Len(d) THEN 0
       ELSE IF d[q + 1] = NL THEN q + 1
       ELSE IF d[q + 1] \in GoTags THEN GoEnd(d, q + 1)
       ELSE 0

\* regexs["go_build_constraints"] with re.MULTILINE; subn("", data, 1)
go_build_constraints_subn(d) ==
    LET M == {p \in LineStarts(d) : d[p] \in GoTags /\ GoEnd(d, p) # 0}
    IN IF M = {} THEN d
       ELSE LET p == Min(M)
            IN SubSeq(d, 1, p - 1) \o SubSeq(d, GoEnd(d, p) + 1, Len(d))

(***************************************************************************)
(* Paths                                                                   *)
(***************************************************************************)
\* str.lower() on the atoms of the model
lower(s) == [i \in 1..Len(s) |-> IF s[i] = "GO" THEN "go" ELSE s[i]]

\* os.path.basename
basename(p) ==
    LET S == {i \in 1..Len(p) : p[i] = "/"}
    IN IF S = {} THEN p ELSE SubSeq(p, Max(S) + 1, Len(p))

\* os.path.splitext(p)[1]: from the last dot of the last component, unless
\* only dots precede it there
splitext1(p) ==
    LET b == basename(p)
        S == {i \in 1..Len(b) : b[i] = "." /\ \E j \in 1..(i - 1) : b[j] # "."}
    IN IF S = {} THEN <<>> ELSE SubSeq(b, Max(S), Len(b))

\* file_extension(filename): splitext(filename)[1].split(".")[-1].lower()
file_extension(filename) ==
    LET e == splitext1(filename)
    IN IF e = <<>> THEN <<>> ELSE lower(SubSeq(e, 2, Len(e)))

(***************************************************************************)
(* The fixed lists of the tool                                             *)
(***************************************************************************)
\* SKIPPED_DIRS; '.git' and '__init__.py' are made of several atoms
SKIPPED_DIRS ==
    {<<"Godeps">>, <<"third_party">>, <<"_gopath">>, <<"_output">>,
     <<"external">>, <<".", "git">>, <<"vendor">>, <<"__init__", ".", "py">>,
     <<"node_modules">>, <<"bin">>}

\* IGNORE_HEADERS, each one atom
IGNORE_HEADERS ==
    {<<"// Code generated by">>, <<"// +skip_license_check">>,
     <<"# +skip_license_check">>}

\* ARGS.rootdir
ARGS_rootdir == <<"/", "repo">>

(***************************************************************************)
(* The disk.  A file is [path, status, data]: status "ok" (open and read   *)
(* succeed), "ioerror" (open raises IOError: missing, permission) or       *)
(* "undecodable" (read raises UnicodeDecodeError); data is its content.    *)
(* Paths on the disk are relative to ARGS.rootdir.                         *)
(***************************************************************************)
\* os.path.isabs
isabs(p) == Len(p) > 0 /\ p[1] = "/"

\* os.path.join(ARGS.rootdir, pathname)
join(root, p) == IF isabs(p) THEN p ELSE root \o <<"/">> \o p

\* os.path.relpath(filename, ARGS.rootdir) for a path under the root
relpath(p, root) ==
    IF SubSeq(p, 1, Len(root) + 1) = root \o <<"/">>
    THEN SubSeq(p, Len(root) + 2, Len(p)) ELSE p

\* the file of the disk that an absolute or relative pathname names
FileAt(dsk, pathname) ==
    CHOOSE f \in {dsk[i] : i \in 1..Len(dsk)} :
        join(ARGS_rootdir, f.path) = join(ARGS_rootdir, pathname)

(***************************************************************************)
(* get_refs                                                                *)
(***************************************************************************)
\* glob "boilerplate.*.txt" on a file name of the boilerplate directory
GlobMatch(name) ==
    /\ Len(name) >= 4
    /\ SubSeq(name, 1, 2) = <<"boilerplate", ".">>
    /\ SubSeq(name, Len(name) - 1, Len(name)) = <<".", "txt">>

\* os.path.basename(path).split(".")[1]
SplitDot1(name) ==
    LET dots == {i \in 1..Len(name) : name[i] = "."}
        d1 == Min(dots)
        rest == {i \in dots : i > d1}
    IN SubSeq(name, d1 + 1, IF rest = {} THEN Len(name) ELSE Min(rest) - 1)

\* get_refs(): extension -> ref_file.read().splitlines()
get_refs(dir) ==
    LET matched == {e \in dir : GlobMatch(e.name)}
    IN [k \in {SplitDot1(e.name) : e \in matched} |->
           splitlines((CHOOSE e \in matched : SplitDot1(e.name) = k).data)]

(***************************************************************************)
(* file_passes                                                             *)
(***************************************************************************)
\* the loop without its break: every line is substituted
SubstituteEveryLine(data) == [i \in 1..Len(data) |-> date_subn(data[i]).line]

\* lines 98-103: substitute on the first line with a date, then stop
RECURSIVE Substitute(_)
Substitute(data) ==
    IF data = <<>> THEN <<>>
    ELSE LET s == date_subn(Head(data))
         IN IF s.found # 0 THEN <<s.line>> \o Tail(data)
            ELSE <<s.line>> \o Substitute(Tail(data))

\* the value file_passes returns or the exception it raises (ret), with the
\* locals it had computed by then: the stage it ended in, ref, and data after
\* line 84 (lines), after line 91 (prefix) and after line 103 (final)
Result(ret, stage, ref, lines, prefix, final) ==
    [ret |-> ret, stage |-> stage, ref |-> ref, lines |-> lines,
     prefix |-> prefix, final |-> final]

file_passes(filename, file, refs) ==
    IF file.status = "ioerror"
    THEN Result("False", "open", <<>>, <<>>, <<>>, <<>>)
    ELSE IF file.status = "undecodable"
    THEN Result("UnicodeDecodeError", "open", <<>>, <<>>, <<>>, <<>>)
    ELSE IF Contains(filename, <<"zz_generate">>)
    THEN Result("True", "zz_generate", <<>>, <<>>, <<>>, <<>>)
    ELSE
    LET extension == file_extension(filename)
        key == IF extension # <<>> THEN extension ELSE basename(filename)
    IN IF key \notin DOMAIN refs
       THEN Result("KeyError", "lookup", <<>>, <<>>, <<>>, <<>>)
       ELSE
       LET ref == refs[key]
           d1 == IF extension = <<"go">>
                 THEN go_build_constraints_subn(file.data) ELSE file.data
           d2 == IF extension \in {<<"sh">>, <<"py">>}
                 THEN shebang_subn(d1) ELSE d1
           lines == splitlines(d2)
       IN IF Len(ref) > Len(lines)
          THEN Result("False", "length", ref, lines, lines, lines)
          ELSE
          LET prefix == SubSeq(lines, 1, Len(ref))
          IN IF \E i \in 1..Len(prefix) : year_search(prefix[i])
             THEN Result("False", "year", ref, lines, prefix, prefix)
             ELSE LET final == Substitute(prefix)
                  IN Result(IF ref = final THEN "True" ELSE "False",
                            "compare", ref, lines, prefix, final)

(***************************************************************************)
(* has_ignored_header, normalize_files, get_files                          *)
(***************************************************************************)
\* all() where the loop means any(): every marker must be present
has_ignored_header_all(file) ==
    IF file.status # "ok" THEN "raise"
    ELSE IF \A h \in IGNORE_HEADERS : Contains(file.data, h) THEN "True"
    ELSE "False"

\* "raise" when open() or read() raises, else whether a marker is in the data
has_ignored_header(file) ==
    IF file.status # "ok" THEN "raise"
    ELSE IF \E h \in IGNORE_HEADERS : Contains(file.data, h) THEN "True"
    ELSE "False"

Skipped(pathname) == \E x \in SKIPPED_DIRS : Contains(pathname, x)

\* the join without the filter
normalize_files_unfiltered(files) ==
    [idx \in 1..Len(files) |-> join(ARGS_rootdir, files[idx])]

normalize_files(files) ==
    LET newfiles == SelectSeq(files, LAMBDA pathname : ~Skipped(pathname))
    IN [idx \in 1..Len(newfiles) |-> join(ARGS_rootdir, newfiles[idx])]

\* the directory names on the way to a file, as os.walk meets them
RECURSIVE DirNames(_)
DirNames(p) ==
    LET S == {i \in 1..Len(p) : p[i] = "/"}
    IN IF S = {} THEN {}
       ELSE {SubSeq(p, 1, Min(S) - 1)} \cup DirNames(SubSeq(p, Min(S) + 1, Len(p)))

\* os.walk(ARGS.rootdir) with the skipped directories removed from dirs
Walk(dsk) ==
    LET all == [i \in 1..Len(dsk) |-> dsk[i].path]
        kept == SelectSeq(all, LAMBDA p : DirNames(p) \cap SKIPPED_DIRS = {})
    IN [i \in 1..Len(kept) |-> join(ARGS_rootdir, kept[i])]

\* line 181-183: the test that decides whether has_ignored_header is called
HasKey(pathname, extensions) ==
    file_extension(pathname) \in extensions \/ basename(pathname) \in extensions

\* get_files(extensions): [raised, at, opened, outfiles, files]
get_files(argv, dsk, extensions) ==
    LET files0 == IF argv # <<>> THEN argv ELSE Walk(dsk)
        files == normalize_files(files0)
        keyed == {i \in 1..Len(files) : HasKey(files[i], extensions)}
        bad == {i \in keyed : has_ignored_header(FileAt(dsk, files[i])) = "raise"}
        stop == IF bad = {} THEN Len(files) ELSE Min(bad)
    IN [raised |-> bad # {},
        at |-> IF bad = {} THEN <<>> ELSE files[stop],
        files |-> files,
        opened |-> {files[i] : i \in {j \in keyed : j <= stop}},
        outfiles |-> IF bad # {} THEN <<>>
                     ELSE SelectSeq(files, LAMBDA p :
                              /\ HasKey(p, extensions)
                              /\ has_ignored_header(FileAt(dsk, p)) = "False")]

(***************************************************************************)
(* sorted(): the order of Python's str comparison on the atoms of paths,   *)
(* which all begin with different characters                               *)
(***************************************************************************)
AtomOrder ==
    <<".", "/", "GO", "Makefile", "README", "a", "bin", "go", "py", "repo",
      "ro", "txt", "vendor", "zz_generate">>

AtomRank(a) == CHOOSE i \in 1..Len(AtomOrder) : AtomOrder[i] = a

LeqPath(p, q) ==
    LET D == {i \in 1..Len(p) : i > Len(q) \/ p[i] # q[i]}
    IN IF D = {} THEN TRUE
       ELSE Min(D) <= Len(q) /\ AtomRank(p[Min(D)]) < AtomRank(q[Min(D)])

RECURSIVE SortedSet(_)
SortedSet(S) ==
    IF S = {} THEN <<>>
    ELSE LET m == CHOOSE x \in S : \A y \in S : LeqPath(x, y)
         IN <<m>> \o SortedSet(S \ {m})

sorted(list) == SortedSet({list[i] : i \in 1..Len(list)})

(***************************************************************************)
(* State                                                                   *)
(***************************************************************************)
VARIABLES
    pc,             \* where the program is
    argv,           \* ARGS.filenames
    disk,           \* the files under ARGS.rootdir
    bdir,           \* the files of ARGS.boilerplate_dir
    refs,           \* main's refs
    filenames,      \* main's filenames, the result of get_files
    idx,            \* the next element of filenames the comprehension takes
    nonconforming,  \* nonconforming_files, as built so far
    last,           \* the latest call of file_passes: its filename and Result
    opened,         \* the pathnames handed to open() so far
    stdout,         \* what was printed
    raised,         \* the uncaught exception that ended the run, or <<>>
    exitCode        \* the exit status, -1 while running

vars == <<pc, argv, disk, bdir, refs, filenames, idx, nonconforming, last,
          opened, stdout, raised, exitCode>>

\* a printed line: "failed to read <path>", "<n> files have incorrect
\* boilerplate headers:" or a relative path
Line(kind, n, path) == [kind |-> kind, n |-> n, path |-> path]

NoCall == [filename |-> <<>>] @@ Result("none", "none", <<>>, <<>>, <<>>, <<>>)

(***************************************************************************)
(* Inputs                                                                  *)
(***************************************************************************)
SeqsUpTo(S, n) == UNION {[1..k -> S] : k \in 0..n}

Y1 == ToString(FirstYear)
Y2 == ToString(years)
YOut == ToString(FirstYear - 1)

File(path, status, data) == [path |-> path, status |-> status, data |-> data]

Entry(name, data) == [name |-> name, data |-> data]

\* the disk paths of Spec
RunPaths ==
    {<<"a", ".", "GO">>, <<"vendor", "/", "a", ".", "go">>,
     <<"ro", "bin", ".", "go">>, <<"zz_generate", ".", "go">>,
     <<"Makefile">>, <<"README">>, <<"a", ".", "txt">>}

GoodText == <<Y1, NL>>
BadText == <<"w", NL>>
MarkedText == <<"# +skip_license_check", NL, "w", NL>>

RunFiles ==
    {File(p, "ok", d) : p \in RunPaths, d \in {GoodText, BadText, MarkedText}}
    \cup {File(p, "undecodable", MarkedText) : p \in RunPaths}

RunDirs ==
    LET base == {Entry(<<"boilerplate", ".", "go", ".", "txt">>, <<"YEAR", NL>>),
                 Entry(<<"boilerplate", ".", "Makefile", ".", "txt">>, <<"YEAR", NL>>),
                 Entry(<<"README">>, <<"w", NL>>)}
    IN {base, base \cup {Entry(<<"boilerplate", ".", ".", "txt">>, <<"YEAR", NL>>)}}

Distinct(d) == \A i, j \in 1..Len(d) : i # j => d[i].path # d[j].path

Init ==
    /\ disk \in {d \in SeqsUpTo(RunFiles, MaxFiles) : Distinct(d)}
    /\ argv \in {<<>>, [i \in 1..Len(disk) |-> disk[i].path]}
    /\ bdir \in RunDirs
    /\ pc = "start"
    /\ refs = <<>>
    /\ filenames = <<>>
    /\ idx = 1
    /\ nonconforming = <<>>
    /\ last = NoCall
    /\ opened = {}
    /\ stdout = <<>>
    /\ raised = <<>>
    /\ exitCode = -1

(***************************************************************************)
(* main                                                                    *)
(***************************************************************************)
\* lines 206-207: regexs = get_regexs(); refs = get_refs()
GetRefs ==
    /\ pc = "start"
    /\ refs' = get_refs(bdir)
    /\ pc' = "get_files"
    /\ UNCHANGED <<argv, disk, bdir, filenames, idx, nonconforming, last,
                   opened, stdout, raised, exitCode>>

\* an uncaught exception: the interpreter prints the traceback and ends the
\* process with exit status 1
Abort(exc, pathname) ==
    /\ raised' = <<exc, pathname>>
    /\ exitCode' = 1
    /\ pc' = "exit"

\* line 208: filenames = get_files(refs.keys())
GetFiles ==
    /\ pc = "get_files"
    /\ LET g == get_files(argv, disk, DOMAIN refs)
       IN /\ opened' = opened \cup g.opened
          /\ filenames' = g.outfiles
          /\ IF g.raised
             THEN /\ Abort(IF FileAt(disk, g.at).status = "ioerror"
                           THEN "IOError" ELSE "UnicodeDecodeError", g.at)
                  /\ stdout' = IF FileAt(disk, g.at).status = "undecodable"
                               THEN Append(stdout, Line("failed to read", 0, g.at))
                               ELSE stdout
             ELSE /\ pc' = "check"
                  /\ UNCHANGED <<raised, exitCode, stdout>>
    /\ UNCHANGED <<argv, disk, bdir, refs, idx, nonconforming, last>>

\* lines 209-213: one element of the comprehension
CheckFile ==
    /\ pc = "check"
    /\ idx <= Len(filenames)
    /\ LET filename == filenames[idx]
           r == file_passes(filename, FileAt(disk, filename), refs)
       IN /\ last' = [filename |-> filename] @@ r
          /\ opened' = opened \cup {filename}
          /\ IF r.ret \in {"KeyError", "UnicodeDecodeError"}
             THEN /\ Abort(r.ret, filename)
                  /\ UNCHANGED <<idx, nonconforming>>
             ELSE /\ idx' = idx + 1
                  /\ nonconforming' = IF r.ret = "False"
                                      THEN Append(nonconforming, filename)
                                      ELSE nonconforming
                  /\ UNCHANGED <<pc, raised, exitCode>>
    /\ UNCHANGED <<argv, disk, bdir, refs, filenames, stdout>>

\* the report without sys.exit(1): main returns, exit status 0
ReportNoExit ==
    /\ pc = "check"
    /\ idx > Len(filenames)
    /\ nonconforming # <<>>
    /\ stdout' = Append(stdout, Line("files have incorrect boilerplate headers:",
                                     Len(nonconforming), <<>>))
    /\ exitCode' = 0
    /\ pc' = "exit"
    /\ UNCHANGED <<argv, disk, bdir, refs, filenames, idx, nonconforming, last,
                   opened, raised>>

\* lines 214-218: the report and sys.exit(1)
Report ==
    /\ pc = "check"
    /\ idx > Len(filenames)
    /\ nonconforming # <<>>
    /\ LET s == sorted(nonconforming)
       IN stdout' = stdout
                      \o <<Line("files have incorrect boilerplate headers:",
                                Len(nonconforming), <<>>)>>
                      \o [i \in 1..Len(s) |->
                             Line("path", 0, relpath(s[i], ARGS_rootdir))]
    /\ exitCode' = 1
    /\ pc' = "exit"
    /\ UNCHANGED <<argv, disk, bdir, refs, filenames, idx, nonconforming, last,
                   opened, raised>>

\* main returns: exit status 0
ExitClean ==
    /\ pc = "check"
    /\ idx > Len(filenames)
    /\ nonconforming = <<>>
    /\ exitCode' = 0
    /\ pc' = "exit"
    /\ UNCHANGED <<argv, disk, bdir, refs, filenames, idx, nonconforming, last,
                   opened, stdout, raised>>

Next == GetRefs \/ GetFiles \/ CheckFile \/ Report \/ ExitClean

Spec == Init /\ [][Next]_vars

(***************************************************************************)
(* file_passes on its own: one call on a drawn file and template.  The     *)
(* file may be unreadable here, as when it goes away after get_files.      *)
(***************************************************************************)
\* the largest number of lines of a reference template in SpecMatch
MaxRefLines == 2

\* the lines of a candidate text, by extension; a candidate text is made of
\* up to MaxLines of them, each ended by a newline
CandLines(e) ==
    IF e = "py"
    THEN {<<>>, <<"w">>, <<"YEAR">>, <<Y1>>, <<Y2>>, <<YOut>>, <<Y1, Y2>>, <<"#!">>}
    ELSE {<<>>, <<"w">>, <<"YEAR">>, <<Y1>>, <<"//go:build">>}

RefLines == {<<"w">>, <<"YEAR">>, <<Y1>>}

Templates == SeqsUpTo(RefLines, MaxRefLines) \ {<<>>}

MatchDir(ref) ==
    {Entry(<<"boilerplate", ".", k, ".", "txt">>, JoinLines(ref)) : k \in {"py", "go"}}

MatchFiles ==
    UNION {{File(<<"a", ".", e>>, "ok", JoinLines(ls)) :
               ls \in SeqsUpTo(CandLines(e), MaxLines)} : e \in {"py", "go"}}
    \cup {File(p, st, d) :
            p \in {<<"zz_generate", ".", "go">>, <<"a", ".", "go">>},
            st \in {"ok", "ioerror", "undecodable"},
            d \in {GoodText, BadText}}

InitMatch ==
    /\ \E f \in MatchFiles : disk = <<f>>
    /\ \E ref \in Templates : bdir = MatchDir(ref)
    /\ refs = get_refs(bdir)
    /\ argv = <<disk[1].path>>
    /\ pc = "call"
    /\ filenames = <<join(ARGS_rootdir, disk[1].path)>>
    /\ idx = 1
    /\ nonconforming = <<>>
    /\ last = NoCall
    /\ opened = {}
    /\ stdout = <<>>
    /\ raised = <<>>
    /\ exitCode = -1

\* file_passes(filename, refs, regexs), called once
CallFilePasses ==
    /\ pc = "call"
    /\ LET filename == filenames[idx]
       IN /\ last' = [filename |-> filename]
                        @@ file_passes(filename, FileAt(disk, filename), refs)
          /\ opened' = opened \cup {filename}
    /\ pc' = "returned"
    /\ UNCHANGED <<argv, disk, bdir, refs, filenames, idx, nonconforming,
                   stdout, raised, exitCode>>

NextMatch == CallFilePasses

SpecMatch == InitMatch /\ [][NextMatch]_vars

(***************************************************************************)
(* Properties of file_passes, checked under SpecMatch                      *)
(***************************************************************************)
Range(q) == {q[i] : i \in 1..Len(q)}

\* the years 2014 .. current year, as text
SupportedYears == {ToString(y) : y \in FirstYear..years}

\* every 4-digit year of the model, supported or not
YearShaped == SupportedYears \cup {YOut}

\* the call returned (or raised) and had split the text into lines (line 84)
Split == pc = "returned" /\ last.stage \in {"length", "year", "compare"}

\* the call got as far as the header-sized prefix (line 91)
Trimmed == pc = "returned" /\ last.stage \in {"year", "compare"}

PlaceholderLines(T) == {k \in 1..Len(T) : Contains(T[k], <<"YEAR">>)}

\* line with every YEAR replaced by the year y
Fill(line, y) == [i \in 1..Len(line) |-> IF line[i] = "YEAR" THEN y ELSE line[i]]

\* line with every supported year replaced by YEAR
Unfill(line) ==
    [i \in 1..Len(line) |-> IF line[i] \in SupportedYears THEN "YEAR" ELSE line[i]]

\* lines begins with a copy of T whose placeholder holds one supported year
IsFilledCopy(lines, T) ==
    /\ Len(lines) >= Len(T)
    /\ \E y \in SupportedYears : \A i \in 1..Len(T) : lines[i] = Fill(T[i], y)

\* the lines of q that hold a year of the set Y
LinesWith(q, Y) == {i \in 1..Len(q) : \E j \in 1..Len(q[i]) : q[i][j] \in Y}

\* the first line of q that holds a supported year, 0 when none does
FirstDateLine(q) ==
    IF LinesWith(q, SupportedYears) = {} THEN 0 ELSE Min(LinesWith(q, SupportedYears))

\* C1 as stated: a template with one placeholder line, and a candidate that
\* begins with the template, a supported year in the placeholder's place,
\* passes, whatever follows.
C1_Original ==
    (Split /\ Cardinality(PlaceholderLines(last.ref)) = 1
           /\ IsFilledCopy(last.lines, last.ref))
        => last.ret = "True"

\* C1 amended: the same, for templates that hold no supported year as a
\* literal on the placeholder line or on a line before it: such a candidate
\* passes, whatever follows the first len(T) lines.
C1_Amended ==
    (/\ Split
     /\ Cardinality(PlaceholderLines(last.ref)) = 1
     /\ IsFilledCopy(last.lines, last.ref)
     /\ \A i \in LinesWith(last.ref, SupportedYears) :
            i > Max(PlaceholderLines(last.ref)))
        => last.ret = "True"

\* a python file with a shebang, then a one-line template filled in with the
\* current year, then one more line: it passes
C1_Witness ==
    /\ Split
    /\ disk[1].path = <<"a", ".", "py">>
    /\ disk[1].data = <<"#!", NL, Y2, NL, "YEAR", NL>>
    /\ last.ref = <<<<"YEAR">>>>
    /\ last.lines = <<<<Y2>>, <<"YEAR">>>>
    /\ last.ret = "True"

C8_Claim ==
    (Split /\ file_extension(last.filename) = <<"py">>
           /\ (disk[1].data = <<>> \/ disk[1].data[1] # "#!"))
        => last.lines = splitlines(disk[1].data)

\* C9: a file whose path contains zz_generate passes, readable or not.
C9_Claim ==
    (pc = "returned" /\ Contains(last.filename, <<"zz_generate">>))
        => last.ret = "True"

DiskFiles == Range(disk)

Abs(f) == join(ARGS_rootdir, f.path)

\* the path as normalize_files receives it: the command line's, or the walk's
InputPath(f) == IF argv # <<>> THEN f.path ELSE Abs(f)

HasMarker(f) == \E h \in IGNORE_HEADERS : Contains(f.data, h)

\* f survives the selection: no skipped directory, a template key, no marker
Selected(f) ==
    /\ ~Skipped(InputPath(f))
    /\ HasKey(Abs(f), DOMAIN refs)
    /\ has_ignored_header(f) = "False"

SomeSelectedFails ==
    \E f \in DiskFiles : Selected(f) /\ file_passes(Abs(f), f, refs).ret = "False"

FailureListPrinted == \E i \in 1..Len(stdout) : stdout[i].kind # "failed to read"

\* f is in the failure report
Reported(f) ==
    \/ Abs(f) \in Range(nonconforming)
    \/ \E i \in 1..Len(stdout) :
          stdout[i].kind = "path" /\ stdout[i].path = f.path

\* the run ended on an exception raised while handling f
FailedOn(f) == raised # <<>> /\ raised[2] = Abs(f)

\* C3 as stated: exit status 1 exactly when a selected file fails file_passes,
\* otherwise exit status 0 and no failure list.
C3_Original ==
    pc = "exit"
        => /\ (exitCode = 1) = SomeSelectedFails
           /\ ~SomeSelectedFails => (exitCode = 0 /\ ~FailureListPrinted)

\* C3 amended: a run ends with exit status 1 exactly when a selected file
\* fails file_passes or an uncaught exception ends the run (a file with a
\* template key that cannot be read, a failed template lookup); otherwise it
\* ends with 0.  The failure list is printed exactly when no exception ended
\* the run and a selected file fails.
C3_Amended ==
    pc = "exit"
        => /\ (exitCode = 1) = (SomeSelectedFails \/ raised # <<>>)
           /\ (exitCode = 0) = (~SomeSelectedFails /\ raised = <<>>)
           /\ FailureListPrinted = (SomeSelectedFails /\ raised = <<>>)
           /\ FailureListPrinted => Len(stdout) = 1 + Len(nonconforming)

\* two files selected, one passes and one fails: the report, exit status 1
C3_Witness ==
    /\ pc = "exit"
    /\ Len(filenames) = 2
    /\ Len(nonconforming) = 1
    /\ raised = <<>>
    /\ exitCode = 1
    /\ Len(stdout) = 2

C5_SkippedDropped ==
    \A f \in DiskFiles :
        Skipped(InputPath(f))
            => /\ Abs(f) \notin opened
               /\ Abs(f) \notin Range(filenames)
               /\ ~Reported(f)
               /\ ~FailedOn(f)

\* a file with 'bin' inside its name and a wrong header, and a run that is over
C5_Witness ==
    /\ pc = "exit"
    /\ exitCode = 0
    /\ \E f \in DiskFiles : f = File(<<"ro", "bin", ".", "go">>, "ok", BadText)
    /\ \E f \in DiskFiles : Abs(f) \in opened

\* C6: every file get_files selects has a template under the key file_passes
\* looks up: the extension when it is not empty, the basename otherwise.
C6_Claim ==
    \A p \in Range(filenames) :
        (IF file_extension(p) # <<>> THEN file_extension(p) ELSE basename(p))
            \in DOMAIN refs

====
